---- MODULE Spec2Model ----
(***************************************************************************)
(* Model of the rust-rest-apis service: process startup (main / init_db),  *)
(* the two HTTP handlers (health_check, get_users) and the single shared   *)
(* tokio::sync::Mutex-guarded database connection they use.                *)
(***************************************************************************)
EXTENDS Integers, Sequences, FiniteSets, TLC

(* ------------------------------ bounds --------------------------------- *)
NumReq == 2
NumHealth == 1
MaxRows == 2

(* -------------------------- program constants -------------------------- *)
U16Max == 65535

Requests == 1..NumReq
HealthReqs == 1..NumHealth
NoHolder == 0

VARIABLES mainPc, env, initErr, initCalls, table, holder, waiters, pc,
          results, resp, logged, healthResp

vars == <<mainPc, env, initErr, initCalls, table, holder, waiters, pc,
          results, resp, logged, healthResp>>

(* --------------------------- configuration ----------------------------- *)
EnvNames == {"DB_HOST", "DB_PORT", "DB_NAME", "DB_USER", "DB_PASSWORD"}
Unset == [set |-> FALSE, val |-> <<>>]
SetTo(s) == [set |-> TRUE, val |-> s]

Digits == {"0", "1", "2", "3", "4", "5", "6", "7", "8", "9"}
DigitVal(c) ==
  CASE c = "0" -> 0 [] c = "1" -> 1 [] c = "2" -> 2 [] c = "3" -> 3
    [] c = "4" -> 4 [] c = "5" -> 5 [] c = "6" -> 6 [] c = "7" -> 7
    [] c = "8" -> 8 [] c = "9" -> 9

PortStrings ==
  { <<"1", "4", "3", "3">>, <<"6", "5", "5", "3", "5">>,
    <<"6", "5", "5", "3", "6">>, <<"+", "8", "0">>, <<"-", "1">>,
    <<"0", "0", "8", "0">>, <<"8", "0", " ">>, <<"+">>, <<>> }

ParseOk(n) == [ok |-> TRUE, n |-> n]
ParseErr == [ok |-> FALSE, n |-> 0]

(* str::parse::<u16>: digit loop with checked multiply and checked add *)
RECURSIVE ParseDigits(_, _)
RECURSIVE ParseDigits_Wrapping(_, _)
ParseDigits_Wrapping(s, acc) ==
  IF s = <<>> THEN ParseOk(acc)
  ELSE IF Head(s) \notin Digits THEN ParseErr
  ELSE ParseDigits_Wrapping(Tail(s), (acc * 10 + DigitVal(Head(s))) % (U16Max + 1))
ParseDigits(s, acc) ==
  IF s = <<>> THEN ParseOk(acc)
  ELSE IF Head(s) \notin Digits THEN ParseErr
  ELSE IF acc * 10 + DigitVal(Head(s)) > U16Max THEN ParseErr
  ELSE ParseDigits(Tail(s), acc * 10 + DigitVal(Head(s)))

(* str::parse::<u16>: empty and lone-sign inputs fail, a leading '+' is    *)
(* accepted, a leading '-' is an invalid digit for an unsigned type        *)
ParseU16(s) ==
  IF s = <<>> THEN ParseErr
  ELSE IF Len(s) = 1 /\ Head(s) \in {"+", "-"} THEN ParseErr
  ELSE IF Head(s) = "+" THEN ParseDigits(Tail(s), 0)
  ELSE ParseDigits(s, 0)

(* The error init_db returns from its configuration section, "" if none.   *)
ConfigError(e) ==
  IF ~e["DB_HOST"].set THEN "DB_HOST environment variable not set"
  ELSE IF ~e["DB_PORT"].set THEN "DB_PORT environment variable not set"
  ELSE IF ~ParseU16(e["DB_PORT"].val).ok THEN "DB_PORT must be a valid port number"
  ELSE IF ~e["DB_NAME"].set THEN "DB_NAME environment variable not set"
  ELSE IF ~e["DB_USER"].set THEN "DB_USER environment variable not set"
  ELSE IF ~e["DB_PASSWORD"].set THEN "DB_PASSWORD environment variable not set"
  ELSE ""

Envs ==
  { e \in [EnvNames -> {Unset, SetTo(<<"x">>)} \cup {SetTo(p) : p \in PortStrings}] :
      \A v \in EnvNames \ {"DB_PORT"} : e[v] \in {Unset, SetTo(<<"x">>)} }

(* ------------------------------ the store ------------------------------ *)
Val(v) == [kind |-> "val", v |-> v]
NullStr == [kind |-> "null", v |-> ""]
NullInt == [kind |-> "null", v |-> 0]
BadInt == [kind |-> "badtype", v |-> 0]
MissingStr == [kind |-> "missing", v |-> ""]

(* Rows of the users table as the driver presents them for the fixed       *)
(* SELECT; created_at / updated_at are store columns the SELECT leaves out *)
SampleRows ==
  { [id |-> Val(1), username |-> Val("john_doe"), email |-> Val("john@example.com"),
     full_name |-> Val("John Doe"), created_at |-> "2025-10-26T10:30:00",
     updated_at |-> "2025-10-26T10:30:00"],
    [id |-> Val(2), username |-> Val("jane_doe"), email |-> Val("jane@example.com"),
     full_name |-> Val("Jane Doe"), created_at |-> "2025-10-27T08:00:00",
     updated_at |-> "2025-10-28T09:15:00"],
    [id |-> NullInt, username |-> NullStr, email |-> NullStr,
     full_name |-> NullStr, created_at |-> "2025-10-26T10:30:00", updated_at |-> ""],
    [id |-> BadInt, username |-> Val("big_id"), email |-> Val("big@example.com"),
     full_name |-> Val("Big Id"), created_at |-> "", updated_at |-> ""],
    [id |-> Val(3), username |-> Val("no_name"), email |-> Val("no@example.com"),
     full_name |-> MissingStr, created_at |-> "", updated_at |-> ""] }

RECURSIVE SeqsUpTo(_, _)
SeqsUpTo(S, n) ==
  IF n = 0 THEN {<<>>}
  ELSE LET sh == SeqsUpTo(S, n - 1)
       IN sh \cup {Append(s, x) : s \in {t \in sh : Len(t) = n - 1}, x \in S}

Tables == SeqsUpTo(SampleRows, MaxRows)

DbErrors == {"Invalid object name 'users'.", "connection reset by peer"}

(* --------------------------- values and JSON --------------------------- *)
None == [some |-> FALSE, v |-> ""]
Some(s) == [some |-> TRUE, v |-> s]

JNull == [t |-> "null", s |-> "", n |-> 0]
JStr(s) == [t |-> "string", s |-> s, n |-> 0]
JNum(n) == [t |-> "number", s |-> "", n |-> n]

NoResp == [status |-> 0, t |-> "none", s |-> "", items |-> <<>>]
JsonString(status, s) == [status |-> status, t |-> "string", s |-> s, items |-> <<>>]
JsonArray(status, items) == [status |-> status, t |-> "array", s |-> "", items |-> items]

NoResults == [tag |-> "none", sets |-> <<>>, err |-> ""]
OkResults(sets) == [tag |-> "ok", sets |-> sets, err |-> ""]
ErrResults(e) == [tag |-> "err", sets |-> <<>>, err |-> e]

(* the log::error! line a handler emits, with the driver's error text *)
NoLog == [msg |-> "", e |-> ""]
ErrorLog(msg, e) == [msg |-> msg, e |-> e]

(* ------------------------------- Init ---------------------------------- *)
Init ==
  /\ mainPc = "start"
  /\ env \in Envs
  /\ initErr = ""
  /\ initCalls = 0
  /\ table \in Tables
  /\ holder = NoHolder
  /\ waiters = <<>>
  /\ pc = [r \in Requests |-> "idle"]
  /\ results = [r \in Requests |-> NoResults]
  /\ resp = [r \in Requests |-> NoResp]
  /\ logged = [r \in Requests |-> NoLog]
  /\ healthResp = [h \in HealthReqs |-> [resp |-> NoResp, holder |-> NoHolder]]

ServerVars == <<holder, waiters, pc, results, resp, logged, healthResp>>

(* ------------------------------ startup -------------------------------- *)
(* main calls init_db; its configuration section runs without suspension  *)
ReadConfig ==
  /\ mainPc = "start"
  /\ initCalls' = initCalls + 1
  /\ initErr' = ConfigError(env)
  /\ mainPc' = IF ConfigError(env) = "" THEN "tcp" ELSE "aborted"
  /\ UNCHANGED <<env, table, ServerVars>>

(* TcpStream::connect(...).await? followed by tcp.set_nodelay(true)? *)
TcpConnect ==
  /\ mainPc = "tcp"
  /\ \E outcome \in {"ok", "connect failed", "set_nodelay failed"} :
       /\ initErr' = IF outcome = "ok" THEN "" ELSE outcome
       /\ mainPc' = IF outcome = "ok" THEN "auth" ELSE "aborted"
  /\ UNCHANGED <<env, initCalls, table, ServerVars>>

(* Client::connect(config, tcp).await? : TDS handshake and login *)
ClientConnect ==
  /\ mainPc = "auth"
  /\ \E outcome \in {"ok", "login failed"} :
       /\ initErr' = IF outcome = "ok" THEN "" ELSE outcome
       /\ mainPc' = IF outcome = "ok" THEN "bind" ELSE "aborted"
  /\ UNCHANGED <<env, initCalls, table, ServerVars>>

(* HttpServer::new(...).bind("127.0.0.1:8080")?.run() *)
Bind ==
  /\ mainPc = "bind"
  /\ \E ok \in BOOLEAN : mainPc' = IF ok THEN "serving" ELSE "exited"
  /\ UNCHANGED <<env, initErr, initCalls, table, ServerVars>>

MainVars == <<mainPc, env, initErr, initCalls, table>>

(* ----------------------------- health_check ---------------------------- *)
health_check_NeedsLock(h) ==
  /\ mainPc = "serving"
  /\ holder = NoHolder
  /\ healthResp[h].resp = NoResp
  /\ healthResp' = [healthResp EXCEPT ![h] =
        [resp |-> JsonString(200, "Server is running!"), holder |-> holder]]
  /\ UNCHANGED <<MainVars, holder, waiters, pc, results, resp, logged>>
health_check(h) ==
  /\ mainPc = "serving"
  /\ healthResp[h].resp = NoResp
  /\ healthResp' = [healthResp EXCEPT ![h] =
        [resp |-> JsonString(200, "Server is running!"), holder |-> holder]]
  /\ UNCHANGED <<MainVars, holder, waiters, pc, results, resp, logged>>

(* ------------------------------ get_users ------------------------------ *)
Columns == <<"id", "username", "email", "full_name">>

(* The result sets QueryStream::into_results yields for the fixed SELECT:  *)
(* one result set holding the rows of the table scan                       *)
ResultSets(t) == <<t>>

(* result_sets.into_iter().flatten().collect::<Vec<Row>>() *)
RECURSIVE Flatten(_)
Flatten(sets) ==
  IF sets = <<>> THEN <<>> ELSE Head(sets) \o Flatten(Tail(sets))

(* Row::get::<T, _>(name): Some for a value of the requested type, None    *)
(* for SQL NULL; it panics when the column does not exist or the value     *)
(* cannot be converted to T                                                *)
RowGet(row, col) ==
  CASE row[col].kind = "val" -> [tag |-> "some", v |-> row[col].v]
    [] row[col].kind = "null" -> [tag |-> "none", v |-> row[col].v]
    [] OTHER -> [tag |-> "panic", v |-> row[col].v]

RowPanics(row) == \E i \in 1..Len(Columns) : RowGet(row, Columns[i]).tag = "panic"

(* Option::unwrap_or(default) *)
UnwrapOr(opt, default) == IF opt.tag = "some" THEN opt.v ELSE default

(* the closure of rows.iter().map(...) building a User *)
RowToUser_Timestamps(row) ==
  [id |-> UnwrapOr(RowGet(row, "id"), 0),
   username |-> UnwrapOr(RowGet(row, "username"), ""),
   email |-> UnwrapOr(RowGet(row, "email"), ""),
   full_name |-> UnwrapOr(RowGet(row, "full_name"), ""),
   created_at |-> IF row.created_at = "" THEN None ELSE Some(row.created_at),
   updated_at |-> IF row.updated_at = "" THEN None ELSE Some(row.updated_at)]
RowToUser(row) ==
  [id |-> UnwrapOr(RowGet(row, "id"), 0),
   username |-> UnwrapOr(RowGet(row, "username"), ""),
   email |-> UnwrapOr(RowGet(row, "email"), ""),
   full_name |-> UnwrapOr(RowGet(row, "full_name"), ""),
   created_at |-> None,
   updated_at |-> None]

(* #[derive(Serialize)] for User and Option<String> *)
OptionToJson(o) == IF o.some THEN JStr(o.v) ELSE JNull
UserToJson(u) ==
  [id |-> JNum(u.id), username |-> JStr(u.username), email |-> JStr(u.email),
   full_name |-> JStr(u.full_name), created_at |-> OptionToJson(u.created_at),
   updated_at |-> OptionToJson(u.updated_at)]

UsersToJson(rows) == [i \in 1..Len(rows) |-> UserToJson(RowToUser(rows[i]))]

(* the request reaches client.lock().await and joins the mutex's queue *)
Arrive(r) ==
  /\ mainPc = "serving"
  /\ pc[r] = "idle"
  /\ pc' = [pc EXCEPT ![r] = "lock"]
  /\ waiters' = Append(waiters, r)
  /\ UNCHANGED <<MainVars, holder, results, resp, logged, healthResp>>

(* client.lock().await returns the guard; the query is issued *)
Acquire_NoExclusion(r) ==
  /\ pc[r] = "lock"
  /\ waiters # <<>> /\ Head(waiters) = r
  /\ holder' = r
  /\ waiters' = Tail(waiters)
  /\ pc' = [pc EXCEPT ![r] = "query"]
  /\ UNCHANGED <<MainVars, results, resp, logged, healthResp>>
Acquire(r) ==
  /\ pc[r] = "lock"
  /\ holder = NoHolder
  /\ waiters # <<>> /\ Head(waiters) = r
  /\ holder' = r
  /\ waiters' = Tail(waiters)
  /\ pc' = [pc EXCEPT ![r] = "query"]
  /\ UNCHANGED <<MainVars, results, resp, logged, healthResp>>

(* query.query(&mut *client_guard).await yields Ok(stream) *)
QueryOk(r) ==
  /\ pc[r] = "query"
  /\ pc' = [pc EXCEPT ![r] = "stream"]
  /\ UNCHANGED <<MainVars, holder, waiters, results, resp, logged, healthResp>>

(* query.query(...).await yields Err(e): early return, the guard is dropped *)
QueryErr_Leak(r) ==
  /\ pc[r] = "query"
  /\ \E e \in DbErrors :
       /\ logged' = [logged EXCEPT ![r] = ErrorLog("DB error", e)]
       /\ resp' = [resp EXCEPT ![r] = JsonString(500, e)]
  /\ holder' = NoHolder
  /\ pc' = [pc EXCEPT ![r] = "done"]
  /\ UNCHANGED <<MainVars, waiters, results, healthResp>>
QueryErr_KeepLock(r) ==
  /\ pc[r] = "query"
  /\ \E e \in DbErrors :
       /\ logged' = [logged EXCEPT ![r] = ErrorLog("DB error", e)]
       /\ resp' = [resp EXCEPT ![r] = JsonString(500, "Database query failed")]
  /\ pc' = [pc EXCEPT ![r] = "done"]
  /\ UNCHANGED <<MainVars, holder, waiters, results, healthResp>>
QueryErr(r) ==
  /\ pc[r] = "query"
  /\ \E e \in DbErrors :
       /\ logged' = [logged EXCEPT ![r] = ErrorLog("DB error", e)]
       /\ resp' = [resp EXCEPT ![r] = JsonString(500, "Database query failed")]
  /\ holder' = NoHolder
  /\ pc' = [pc EXCEPT ![r] = "done"]
  /\ UNCHANGED <<MainVars, waiters, results, healthResp>>

(* stream.into_results().await completes, then the block ends and the      *)
(* guard is dropped                                                        *)
IntoResults_KeepLock(r) ==
  /\ pc[r] = "stream"
  /\ \/ results' = [results EXCEPT ![r] = OkResults(ResultSets(table))]
     \/ \E e \in DbErrors : results' = [results EXCEPT ![r] = ErrResults(e)]
  /\ holder' = holder
  /\ pc' = [pc EXCEPT ![r] = "process"]
  /\ UNCHANGED <<MainVars, waiters, resp, logged, healthResp>>
IntoResults(r) ==
  /\ pc[r] = "stream"
  /\ \/ results' = [results EXCEPT ![r] = OkResults(ResultSets(table))]
     \/ \E e \in DbErrors : results' = [results EXCEPT ![r] = ErrResults(e)]
  /\ holder' = NoHolder
  /\ pc' = [pc EXCEPT ![r] = "process"]
  /\ UNCHANGED <<MainVars, waiters, resp, logged, healthResp>>

(* match results { Ok(result_sets) => ..., Err(e) => ... } *)
Process(r) ==
  /\ pc[r] = "process"
  /\ IF results[r].tag = "err"
     THEN /\ logged' = [logged EXCEPT ![r] = ErrorLog("Failed to fetch rows", results[r].err)]
          /\ resp' = [resp EXCEPT ![r] = JsonString(500, "Failed to process query results")]
          /\ pc' = [pc EXCEPT ![r] = "done"]
     ELSE LET rows == Flatten(results[r].sets)
          IN IF \E i \in 1..Len(rows) : RowPanics(rows[i])
             THEN /\ UNCHANGED <<resp, logged>>
                  /\ pc' = [pc EXCEPT ![r] = "panicked"]
             ELSE /\ resp' = [resp EXCEPT ![r] = JsonArray(200, UsersToJson(rows))]
                  /\ pc' = [pc EXCEPT ![r] = "done"]
                  /\ UNCHANGED logged
  /\ UNCHANGED <<MainVars, holder, waiters, results, healthResp>>

(* --------------------------- specifications ---------------------------- *)
Next ==
  \/ ReadConfig
  \/ TcpConnect
  \/ ClientConnect
  \/ Bind
  \/ \E h \in HealthReqs : health_check(h)
  \/ \E r \in Requests : Arrive(r)
  \/ \E r \in Requests : Acquire(r)
  \/ \E r \in Requests : QueryOk(r)
  \/ \E r \in Requests : QueryErr(r)
  \/ \E r \in Requests : IntoResults(r)
  \/ \E r \in Requests : Process(r)

Spec == Init /\ [][Next]_vars

(* Fair scheduling of the handler tasks, and every query issued on the     *)
(* connection eventually completes                                         *)
Fairness ==
  \A r \in Requests :
    /\ WF_vars(Acquire(r))
    /\ WF_vars(QueryOk(r) \/ QueryErr(r))
    /\ WF_vars(IntoResults(r))
    /\ WF_vars(Process(r))

LiveSpec == Init /\ [][Next]_vars /\ Fairness

TypeOK ==
  /\ mainPc \in {"start", "tcp", "auth", "bind", "serving", "aborted", "exited"}
  /\ holder \in Requests \cup {NoHolder}
  /\ pc \in [Requests -> {"idle", "lock", "query", "stream", "process", "done", "panicked"}]
  /\ initCalls \in 0..1

(* ------------------------------ properties ----------------------------- *)
LockedSection == {"query", "stream"}
InLockedSection(r) == pc[r] \in LockedSection
Finished(r) == pc[r] \in {"done", "panicked"}
OtherThan(r) == Requests \ {r}

(* C1: at most one GET /users request at a time is between acquiring and   *)
(* releasing the connection lock, and the request running a query/result   *)
(* cycle on the connection is the lock holder.                             *)
C1_MutualExclusion ==
  /\ Cardinality({r \in Requests : InLockedSection(r)}) <= 1
  /\ \A r \in Requests : InLockedSection(r) => holder = r
  /\ holder # NoHolder => InLockedSection(holder)

C1_Witness ==
  \E r \in Requests : \E q \in OtherThan(r) :
    pc[r] = "stream" /\ pc[q] = "lock" /\ holder = r

(* C2: once serving, every GET /health is answered 200 with the JSON       *)
(* string "Server is running!", and the handler can respond in every       *)
(* serving state, whoever holds the connection lock.                       *)
C2_HealthAlways ==
  /\ \A h \in HealthReqs :
       healthResp[h].resp # NoResp =>
         healthResp[h].resp = JsonString(200, "Server is running!")
  /\ \A h \in HealthReqs :
       (mainPc = "serving" /\ healthResp[h].resp = NoResp) => ENABLED health_check(h)

C2_Witness ==
  \E h \in HealthReqs :
    /\ healthResp[h].resp.status = 200
    /\ healthResp[h].holder \in Requests

(* C3: a query-execution fault and a result-materialization fault each     *)
(* give a 500 with a fixed generic JSON string, never the database error   *)
(* text, and a 500 is produced in no other case.                           *)
C3_GenericErrors ==
  \A r \in Requests :
    /\ resp[r].status = 500 <=> logged[r] # NoLog
    /\ logged[r].msg = "DB error" =>
         resp[r] = JsonString(500, "Database query failed")
    /\ logged[r].msg = "Failed to fetch rows" =>
         resp[r] = JsonString(500, "Failed to process query results")
    /\ (Finished(r) /\ results[r].tag = "err") => logged[r].msg = "Failed to fetch rows"
    /\ resp[r].status = 500 =>
         /\ resp[r].t = "string"
         /\ resp[r].s \notin DbErrors
         /\ resp[r].s # logged[r].e

C3_Witness ==
  \E r \in Requests : \E q \in OtherThan(r) :
    /\ resp[r] = JsonString(500, "Database query failed")
    /\ logged[r].e \in DbErrors
    /\ resp[q] = JsonString(500, "Failed to process query results")
    /\ logged[q].e \in DbErrors

(* C4: every GET /users request whose query and result materialization     *)
(* succeed is answered 200 with a JSON array holding one Record per row of *)
(* the table scan, in row order ([] for zero rows).                        *)
C4_OneRecordPerRow ==
  \A r \in Requests :
    (Finished(r) /\ results[r].tag = "ok") =>
      /\ resp[r].status = 200
      /\ resp[r].t = "array"
      /\ Len(resp[r].items) = Len(table)
      /\ \A i \in 1..Len(table) :
           /\ table[i].id.kind = "val" => resp[r].items[i].id = JNum(table[i].id.v)
           /\ table[i].username.kind = "val" =>
                resp[r].items[i].username = JStr(table[i].username.v)

(* C5 as stated: the lock is released before the results are materialized, *)
(* so a request about to materialize its result stream no longer holds it. *)
C5_ReleasedBeforeMaterialization ==
  \A r \in Requests : pc[r] = "stream" => holder # r

(* C5 amended: the lock is held while the result stream is materialized    *)
(* (into_results) and released right after; only the row-to-Record mapping *)
(* runs outside the locked section.                                        *)
C5_ReleasedAfterMaterialization ==
  \A r \in Requests :
    /\ pc[r] = "stream" => holder = r
    /\ pc[r] = "process" => (holder # r /\ results[r] # NoResults)
    /\ results[r] # NoResults => holder # r

C5_Witness ==
  \E r \in Requests : \E q \in OtherThan(r) :
    pc[r] = "process" /\ results[r].tag = "ok" /\ holder = q /\ pc[q] = "stream"

(* C6: requests are served only after init_db succeeded exactly once; a    *)
(* missing variable, a port that is not an unsigned 16-bit integer, or a   *)
(* connection or login failure aborts the process before any request is    *)
(* served, and init_db is never retried.                                   *)
RECURSIVE DecimalValue(_)
DecimalValue(s) ==
  IF s = <<>> THEN 0
  ELSE DecimalValue(SubSeq(s, 1, Len(s) - 1)) * 10 + DigitVal(s[Len(s)])

IsU16Text(s) ==
  LET d == IF s # <<>> /\ Head(s) = "+" THEN Tail(s) ELSE s
  IN /\ d # <<>>
     /\ \A i \in 1..Len(d) : d[i] \in Digits
     /\ DecimalValue(d) <= U16Max

ConfigValid == (\A v \in EnvNames : env[v].set) /\ IsU16Text(env["DB_PORT"].val)

Served ==
  \/ mainPc = "serving"
  \/ \E r \in Requests : pc[r] # "idle"
  \/ \E h \in HealthReqs : healthResp[h].resp # NoResp

C6_AllOrNothingStartup ==
  /\ initCalls <= 1
  /\ Served => (initCalls = 1 /\ initErr = "" /\ ConfigValid /\ mainPc = "serving")
  /\ initErr # "" => (mainPc = "aborted" /\ ~Served)
  /\ ~ConfigValid => mainPc \in {"start", "aborted"}
  /\ mainPc \in {"aborted", "exited"} => ~Served

C6_Witness ==
  /\ mainPc = "aborted"
  /\ env["DB_PORT"] = SetTo(<<"6", "5", "5", "3", "6">>)
  /\ initErr = "DB_PORT must be a valid port number"
  /\ initCalls = 1

(* C7: in every Record of every 200 response of GET /users, created_at and *)
(* updated_at are null whatever timestamps the store holds.                *)
C7_TimestampsNull ==
  \A r \in Requests :
    resp[r].status = 200 =>
      \A i \in 1..Len(resp[r].items) :
        resp[r].items[i].created_at = JNull /\ resp[r].items[i].updated_at = JNull

C7_Witness ==
  \E r \in Requests :
    /\ resp[r].status = 200
    /\ Len(resp[r].items) = MaxRows
    /\ \A i \in 1..Len(table) : table[i].created_at # "" /\ table[i].updated_at # ""

(* C8: a GET /users request that has produced its response (200 or either  *)
(* 500) no longer holds the lock, so later requests can acquire it.        *)
C8_ReleasedOnEveryExit ==
  \A r \in Requests :
    (resp[r] # NoResp \/ Finished(r)) => (holder # r /\ ~InLockedSection(r))

C8_Witness ==
  \E r \in Requests : \E q \in OtherThan(r) :
    /\ resp[r] = JsonString(500, "Database query failed")
    /\ holder = q
    /\ pc[q] = "query"

(* C9: under fair scheduling, with every query eventually completing,      *)
(* every GET /users request eventually acquires the lock and eventually    *)
(* receives a response.                                                    *)
C9_EveryRequestAnswered ==
  \A r \in Requests : (pc[r] = "lock") ~> (resp[r] # NoResp)

(* C10: a column that is missing or of an unexpected type never causes an  *)
(* error: id defaults to 0, username, email and full_name to "", the row   *)
(* stays in the array and the response is 200.                             *)
C10_DefaultsNeverFail ==
  \A r \in Requests :
    (Finished(r) /\ results[r].tag = "ok") =>
      /\ resp[r].status = 200
      /\ Len(resp[r].items) = Len(table)
      /\ \A i \in 1..Len(table) :
           /\ table[i].id.kind \in {"missing", "badtype"} =>
                resp[r].items[i].id = JNum(0)
           /\ table[i].full_name.kind \in {"missing", "badtype"} =>
                resp[r].items[i].full_name = JStr("")

====
